---- MODULE Spec2Model ----
(***************************************************************************)
(* The in-browser training pipeline of FedLearn: the image loader          *)
(* (loadDataFromDirectory), the resume-or-create model choice, the fit and *)
(* bundle steps of trainModel, the contribution form's download of the     *)
(* project's current model and its upload of the trained bundle, and the   *)
(* server's contribute handler with the files it keeps.                    *)
(*                                                                         *)
(* Strings the code parses (relative paths, content types, the first bytes *)
(* of a download) are sequences of one-character strings, so that split,   *)
(* startsWith and the header test are computed and not assumed.            *)
(***************************************************************************)
EXTENDS Integers, Sequences, FiniteSets, TLC

\* ---------------------------------------------------------------- bounds

\* The longest file selection a run is given.
MaxFiles == 4

\* trainModel.ts:141 sets the sample budget to 5000; the model keeps the
\* comparison and the slice and scales the number.
maxImages == 3

\* trainModel.ts:160 decodes in chunks of 100; scaled likewise.
batchSize == 2

\* The widest output layer a prior bundle may carry.
MaxWidth == 2

\* The most epochs a configuration asks for.
MaxEpochs == 2

\* The most contribute requests the server is sent.
MaxRequests == 2

\* The largest metric value a history holds (values stand for distinct numbers).
MaxMetric == 2

\* The number of createProject requests followed.
MaxCreates == 3

\* ------------------------------------------------------------ the inputs

\* The files a selection is drawn from. A directory picker yields a relative
\* path that starts with the picked directory ("d"), so every path has a
\* parent segment. decodes = FALSE is an image whose bytes the browser cannot
\* decode: its Image element never fires onload.
FilePool ==
  << [ path |-> <<"d","/","a","/","1">>,         type |-> <<"i","m","a","g","e","/","p","n","g">>,     decodes |-> TRUE  ],
     [ path |-> <<"d","/","b","/","2">>,         type |-> <<"i","m","a","g","e","/","j","p","g">>,     decodes |-> TRUE  ],
     [ path |-> <<"d","/","x","/","a","/","3">>, type |-> <<"i","m","a","g","e","/","p","n","g">>,     decodes |-> TRUE  ],
     [ path |-> <<"d","/","c","/","4">>,         type |-> <<"t","e","x","t","/","p","l","a","i","n">>, decodes |-> TRUE  ],
     [ path |-> <<"d","/","b","/","5">>,         type |-> <<"i","m","a","g","e","/","p","n","g">>,     decodes |-> FALSE ],
     [ path |-> <<"d","/","6">>,                 type |-> <<"i","m","a","g","e","/","g","i","f">>,     decodes |-> TRUE  ] >>

FileIds == 1..Len(FilePool)

\* A FileList holds each file of the picked directory once, in the order the
\* directory was walked: the selections are the sub-lists of the pool, taken
\* forwards or backwards.
FileLists ==
  { fs \in UNION { [1..n -> FileIds] : n \in 0..MaxFiles } :
      \/ \A p, q \in DOMAIN fs : p < q => fs[p] < fs[q]
      \/ \A p, q \in DOMAIN fs : p < q => fs[p] > fs[q] }

\* -------------------------------------------------------- string helpers

\* String.prototype.startsWith
StartsWith(s, prefix) ==
  /\ Len(s) >= Len(prefix)
  /\ SubSeq(s, 1, Len(prefix)) = prefix

RECURSIVE SplitFrom(_, _, _, _)
\* The segments of s from position p on, cur being the segment under way.
SplitFrom(s, sep, p, cur) ==
  IF p > Len(s) THEN << cur >>
  ELSE IF s[p] = sep THEN << cur >> \o SplitFrom(s, sep, p + 1, << >>)
  ELSE SplitFrom(s, sep, p + 1, Append(cur, s[p]))

\* String.prototype.split with a one-character separator
Split(s, sep) == SplitFrom(s, sep, 1, << >>)

\* A key no path segment equals: what pathParts[-1] reads (undefined).
Undefined == << "undefined" >>

ImagePrefix == <<"i","m","a","g","e","/">>

\* The filter weakened to "the file has a content type".
IsImageAnyType(f) == Len(FilePool[f].type) > 0

\* file.type.startsWith('image/')
IsImage(f) == StartsWith(FilePool[f].type, ImagePrefix)

\* pathParts[pathParts.length - 2]: the parent directory's name
LabelOf(f) ==
  LET pathParts == Split(FilePool[f].path, "/")
  IN  IF Len(pathParts) >= 2 THEN pathParts[Len(pathParts) - 1] ELSE Undefined

\* ----------------------------------------------------------------- state

VARIABLES
  pc,            \* where the run stands
  caller,        \* "Contrib" (the contribution form) or "direct" (another caller of trainModel)
  files,         \* params.trainingDataDir: the selection, as file ids
  observer,      \* params.onProgress: "none", "quiet", or "throwing" (may throw when called)
  existingModel, \* params.existingModel: null or the prior bundle's bytes
  served,        \* what the project service answered the model download
  scanIx,        \* i of the scan loop: files scanned so far
  labelMap,      \* Map label -> index
  labelIndex,    \* the next index to hand out
  imageFiles,    \* the accepted files, in scan order (then the sample)
  labels,        \* labels[k]: the label index of imageFiles[k]
  batchStart,    \* 0-based start of the chunk being decoded
  batchTensors,  \* per item of the chunk: Pending, NullTensor, or its tensor
  allTensors,    \* the tensors kept so far
  data,          \* the Dataset returned by loadDataFromDirectory, or NoData
  resume,        \* how the resume attempt ended: "none", "loaded", "null" or "throws"
  model,         \* the model handed to fit, or NoModel
  epochs,        \* params.trainingParams.epochs
  epochsDone,    \* epochs fit has completed
  calls,         \* the operations this run has invoked
  outcome,       \* "running", "returned", or the error trainModel threw
  paramsBatchSize,   \* params.trainingParams.batchSize
  trainingBatchSize, \* the batch size model.fit was called with
  result,        \* the metadata trainModel returned, or NoResult
  progress,      \* the last value handed to params.onProgress, as num/den
  failure,       \* the error trainModel's catch block received, or NoFailure
  disposed,      \* what has been released: "xs", "ys", "model", "variables"
  liveTensors,   \* the per-item tensors created and not disposed, by file
  upload,        \* the form data the contribution form posted, or NoUpload
  isSubmitting,  \* the contribution form's isSubmitting state
  fsys,          \* the server's files under the project directory: path and content
  requests,      \* the contribute requests received, each with how far it got
  contributions, \* the Contribution documents saved
  history,       \* the History model.fit resolved with: its acc, accuracy and loss series
  metrics,       \* finalAccuracy and finalLoss as trainModel computed them, or NoMetrics
  uniqueIndex,   \* whether the Project collection enforces unique names itself
  projects,      \* the names of the stored projects, in the order they were saved
  creating       \* the createProject requests received, each with how far it got

clientVars == << pc, caller, files, observer, existingModel, served, scanIx, labelMap,
           labelIndex, imageFiles, labels, batchStart, batchTensors, allTensors,
           data, resume, model, epochs, epochsDone, calls, outcome,
           paramsBatchSize, trainingBatchSize, result, progress, failure,
           disposed, liveTensors, upload, isSubmitting >>

serverVars == << fsys, requests, contributions >>

metricVars == << history, metrics >>

projectVars == << uniqueIndex, projects, creating >>

\* What a step of the client leaves alone.
asideVars == << serverVars, metricVars, projectVars >>

vars == << clientVars, serverVars, metricVars, projectVars >>

loaderVars == << scanIx, labelMap, labelIndex, imageFiles, labels, batchStart,
                 batchTensors, allTensors, data >>

paramVars == << caller, files, observer, existingModel, epochs >>

fitVars == << paramsBatchSize, trainingBatchSize, result >>

runVars == << fitVars, progress, failure, disposed, liveTensors, upload >>

\* The slots of batchTensors and the tensors themselves: a tensor is named by
\* the file whose pixels it holds.
Pending == [ st |-> "pending", src |-> 0 ]
NullTensor == [ st |-> "null", src |-> 0 ]
Tensor(f) == [ st |-> "tensor", src |-> f ]

\* existingModel: null, or bytes that start with a header and (when they hold
\* a topology) describe an output layer of some width.
NullModel == [ present |-> FALSE, bytes |-> << >>, width |-> 0 ]
ZipBytes(w) == [ present |-> TRUE, bytes |-> <<"P","K","3","4">>, width |-> w ]
JsonBytes(w) == [ present |-> TRUE, bytes |-> <<"{","m","o","d">>, width |-> w ]
GarbageBytes == [ present |-> TRUE, bytes |-> <<"?","#","?","#">>, width |-> 0 ]
NoData == [ xs |-> << >>, ys |-> << >>, numClasses |-> -1 ]
NoModel == [ source |-> "none", width |-> 0 ]

EmptyDatasetError == "No valid images could be processed"
CallbackError == "onProgress threw"
StackError == "tf.stack failed"
CleanupError == "disposeVariables threw"

NoResult == [ batchSize |-> 0, epochs |-> 0, modelBlob |-> << >> ]
NoFailure == [ at |-> "none", error |-> "none", cleanup |-> "none" ]
NoUpload == [ file |-> << >>, sha1 |-> << >>, format |-> "none" ]

\* A series of a History is present with its values, or absent.
Absent == [ present |-> FALSE, values |-> << >> ]
NoHistory == [ acc |-> Absent, accuracy |-> Absent, loss |-> Absent ]
NoMetrics == [ computed |-> FALSE, accuracy |-> 0, loss |-> 0 ]

\* A progress value is the fraction num/den; phase names the call site.
NoProgress == [ phase |-> "none", num |-> 0, den |-> 1 ]

\* What one call of onProgress may do: return (FALSE) or throw (TRUE).
ObserverThrows == IF observer = "throwing" THEN BOOLEAN ELSE { FALSE }

Started ==
  /\ pc = "idle"
  /\ caller = "nobody"
  /\ files = << >>
  /\ observer = "none"
  /\ existingModel = NullModel
  /\ served = "nothing"
  /\ scanIx = 0
  /\ labelMap = << >>
  /\ labelIndex = 0
  /\ imageFiles = << >>
  /\ labels = << >>
  /\ batchStart = 0
  /\ batchTensors = << >>
  /\ allTensors = << >>
  /\ data = NoData
  /\ resume = "none"
  /\ model = NoModel
  /\ epochs = 0
  /\ epochsDone = 0
  /\ calls = { }
  /\ outcome = "running"
  /\ paramsBatchSize = 0
  /\ trainingBatchSize = 0
  /\ result = NoResult
  /\ progress = NoProgress
  /\ failure = NoFailure
  /\ disposed = { }
  /\ liveTensors = { }
  /\ upload = NoUpload
  /\ isSubmitting = FALSE
  /\ fsys = { }
  /\ requests = << >>
  /\ contributions = << >>
  /\ metrics = NoMetrics
  /\ projects = << >>
  /\ creating = << >>

\* The state after construction: nothing submitted, nothing received.
Init ==
  /\ Started
  /\ history = NoHistory
  /\ uniqueIndex = FALSE

\* The catch block rethrowing whatever its own cleanup threw.
RethrownCleanupWins(error, cleanupThrows) ==
  IF cleanupThrows THEN CleanupError ELSE error

\* What trainModel's catch block throws: `throw error`, whether or not
\* tf.disposeVariables() threw inside its own try.
Rethrown(error, cleanupThrows) == error

\* trainModel's catch block for an error raised at phase `at`:
\* disposeVariables is tried, then the error is rethrown.
Throw(at, e) ==
  \E cleanupThrows \in BOOLEAN :
    /\ pc' = "threw"
    /\ failure' = [ at |-> at, error |-> e,
                    cleanup |-> IF cleanupThrows THEN "threw" ELSE "done" ]
    /\ disposed' = IF cleanupThrows THEN disposed ELSE disposed \cup { "variables" }
    /\ outcome' = Rethrown(e, cleanupThrows)

\* The run goes on to p: nothing is thrown.
Goto(p) ==
  /\ pc' = p
  /\ UNCHANGED << outcome, failure, disposed >>

\* params.onProgress?.(num/den): the observer, when there is one, is handed
\* the value whether or not it then throws.
Report(phase, v) ==
  progress' = IF observer = "none" THEN progress
              ELSE [ phase |-> phase, num |-> v.num, den |-> v.den ]

\* A whole-number progress value.
Whole(n) == [ num |-> n, den |-> 1 ]

\* ------------------------------------------------- loadDataFromDirectory

\* labelMap.has(label)
Has(m, label) == label \in DOMAIN m

\* labelMap.set(label, ix) on a map that lacks the key
MapSet(m, label, ix) ==
  [ l \in DOMAIN m \cup { label } |-> IF l = label THEN ix ELSE m[l] ]

\* labelMap.size
Size(m) == Cardinality(DOMAIN m)

\* The scan body with labelIndex++ forgotten: every new label gets the same index.
ScanStepNoIncrement(f) ==
  IF IsImage(f)
  THEN LET label == LabelOf(f)
           seen  == Has(labelMap, label)
           m2    == IF seen THEN labelMap ELSE MapSet(labelMap, label, labelIndex)
       IN  /\ labelMap' = m2
           /\ labelIndex' = labelIndex
           /\ imageFiles' = Append(imageFiles, f)
           /\ labels' = Append(labels, m2[label])
  ELSE UNCHANGED << labelMap, labelIndex, imageFiles, labels >>

\* One pass of the scan loop's body over file f.
ScanStep(f) ==
  IF IsImage(f)
  THEN LET label == LabelOf(f)
           seen  == Has(labelMap, label)
           m2    == IF seen THEN labelMap ELSE MapSet(labelMap, label, labelIndex)
       IN  /\ labelMap' = m2
           /\ labelIndex' = IF seen THEN labelIndex ELSE labelIndex + 1
           /\ imageFiles' = Append(imageFiles, f)
           /\ labels' = Append(labels, m2[label])
  ELSE UNCHANGED << labelMap, labelIndex, imageFiles, labels >>

ScanFile ==
  /\ UNCHANGED << asideVars, isSubmitting >>
  /\ pc = "scan"
  /\ scanIx < Len(files)
  /\ ScanStep(files[scanIx + 1])
  /\ scanIx' = scanIx + 1
  /\ UNCHANGED << pc, batchStart, batchTensors, allTensors, data, resume, model,
                  epochsDone, calls, outcome, served >>
  /\ UNCHANGED << paramVars, runVars >>

ScanDone ==
  /\ UNCHANGED << asideVars, isSubmitting >>
  /\ pc = "scan"
  /\ scanIx = Len(files)
  /\ pc' = "sample"
  /\ UNCHANGED << loaderVars, resume, model, epochsDone, calls, outcome, served >>
  /\ UNCHANGED << paramVars, runVars >>

\* The swap written as one assignment: a[i] = a[j], and a[j] keeps its value.
SwapOverwrites(a, i, j) ==
  [ k \in DOMAIN a |-> IF k = i + 1 THEN a[j + 1] ELSE a[k] ]

\* [a[i], a[j]] = [a[j], a[i]] on 0-based positions
Swap(a, i, j) ==
  [ k \in DOMAIN a |-> IF k = i + 1 THEN a[j + 1]
                       ELSE IF k = j + 1 THEN a[i + 1] ELSE a[k] ]

RECURSIVE ShuffleFrom(_, _, _)
\* The Fisher-Yates loop from i down to 1; r[i] is floor(Math.random() * (i + 1)).
ShuffleFrom(indices, i, r) ==
  IF i < 1 THEN indices
  ELSE ShuffleFrom(Swap(indices, i, r[i]), i - 1, r)

\* Every run of draws the loop can make over n indices.
RandomDraws(n) == { r \in [1..(n - 1) -> 0..(n - 1)] : \A i \in 1..(n - 1) : r[i] <= i }

\* The slice dropped: the whole shuffled list is kept.
SelectedIndicesNoSlice(n, r) == ShuffleFrom([ k \in 1..n |-> k - 1 ], n - 1, r)

\* indices.slice(0, maxImages)
SelectedIndices(n, r) ==
  SubSeq(ShuffleFrom([ k \in 1..n |-> k - 1 ], n - 1, r), 1, maxImages)

\* The budget: over maxImages accepted files, a shuffled sample replaces both lists.
Sample ==
  /\ UNCHANGED << asideVars, isSubmitting >>
  /\ pc = "sample"
  /\ IF Len(imageFiles) > maxImages
     THEN \E r \in RandomDraws(Len(imageFiles)) :
            LET sel == SelectedIndices(Len(imageFiles), r)
            IN  /\ imageFiles' = [ k \in DOMAIN sel |-> imageFiles[sel[k] + 1] ]
                /\ labels' = [ k \in DOMAIN sel |-> labels[sel[k] + 1] ]
     ELSE UNCHANGED << imageFiles, labels >>
  /\ pc' = "chunk"
  /\ UNCHANGED << scanIx, labelMap, labelIndex, batchStart, batchTensors,
                  allTensors, data, resume, model, epochsDone, calls, outcome, served >>
  /\ UNCHANGED << paramVars, runVars >>

Min(a, b) == IF a < b THEN a ELSE b

\* batchFiles = imageFiles.slice(batchStart, batchEnd)
BatchFiles ==
  SubSeq(imageFiles, batchStart + 1, Min(batchStart + batchSize, Len(imageFiles)))

\* The head of the chunk loop: every item of the chunk starts decoding.
StartChunk ==
  /\ UNCHANGED << asideVars, isSubmitting >>
  /\ pc = "chunk"
  /\ batchStart < Len(imageFiles)
  /\ batchTensors' = [ k \in DOMAIN BatchFiles |-> Pending ]
  /\ pc' = "await"
  /\ UNCHANGED << scanIx, labelMap, labelIndex, imageFiles, labels, batchStart,
                  allTensors, data, resume, model, epochsDone, calls, outcome, served >>
  /\ UNCHANGED << paramVars, runVars >>

\* The share of the progress range the data loading reports into.
LoadShare == 30

\* The value divided by the chunk's length and not by the selection's.
LoadProgressPerChunk(start, index, n) ==
  [ num |-> (start + index) * LoadShare, den |-> Min(batchSize, n - start) ]

\* ((batchStart + index) / imageFiles.length) * 30
LoadProgress(start, index, n) ==
  [ num |-> (start + index) * LoadShare, den |-> n ]

\* preprocessImage resolves for item k (its image fired onload); the progress
\* callback runs inside the item's try, so its throw turns the item into null.
\* An image that cannot be decoded never fires onload: no step settles it.
ItemLoaded(k) ==
  /\ UNCHANGED << asideVars, isSubmitting >>
  /\ pc = "await"
  /\ k \in DOMAIN batchTensors
  /\ batchTensors[k] = Pending
  /\ FilePool[BatchFiles[k]].decodes
  /\ liveTensors' = liveTensors \cup { BatchFiles[k] }
  /\ Report("load", LoadProgress(batchStart, k - 1, Len(imageFiles)))
  /\ \E throws \in ObserverThrows :
       batchTensors' = [ batchTensors EXCEPT ![k] =
                           IF throws THEN NullTensor ELSE Tensor(BatchFiles[k]) ]
  /\ UNCHANGED << pc, scanIx, labelMap, labelIndex, imageFiles, labels, batchStart,
                  allTensors, data, resume, model, epochsDone, calls, outcome, served >>
  /\ UNCHANGED << paramVars, fitVars, failure, disposed, upload >>

\* batchTensors.filter(t => t !== null)
ValidTensors(bt) == SelectSeq(bt, LAMBDA t : t # NullTensor)

\* The loop moving on as soon as one item of the chunk has settled.
JoinChunkEager ==
  /\ UNCHANGED << asideVars, isSubmitting >>
  /\ pc = "await"
  /\ \E k \in DOMAIN batchTensors : batchTensors[k] # Pending
  /\ allTensors' = allTensors \o SelectSeq(batchTensors, LAMBDA t : t \notin { NullTensor, Pending })
  /\ batchStart' = batchStart + batchSize
  /\ batchTensors' = << >>
  /\ pc' = "chunk"
  /\ UNCHANGED << scanIx, labelMap, labelIndex, imageFiles, labels, data, resume, model,
                  epochsDone, calls, outcome, served >>
  /\ UNCHANGED << paramVars, runVars >>

\* Promise.all resolves once every item has settled; the valid tensors are kept.
JoinChunk ==
  /\ UNCHANGED << asideVars, isSubmitting >>
  /\ pc = "await"
  /\ \A k \in DOMAIN batchTensors : batchTensors[k] # Pending
  /\ allTensors' = allTensors \o ValidTensors(batchTensors)
  /\ batchStart' = batchStart + batchSize
  /\ batchTensors' = << >>
  /\ pc' = "chunk"
  /\ UNCHANGED << scanIx, labelMap, labelIndex, imageFiles, labels, data, resume, model,
                  epochsDone, calls, outcome, served >>
  /\ UNCHANGED << paramVars, runVars >>

\* tf.oneHot(index, depth): one row
OneHot(ix, depth) == [ c \in 0..(depth - 1) |-> IF c = ix THEN 1 ELSE 0 ]

\* labels.slice(0, allTensors.length)
ValidLabels == SubSeq(labels, 1, Len(allTensors))

\* The Dataset of lines 204-211: xs stacks the tensors, ys encodes validLabels.
Stacked ==
  [ xs |-> [ k \in DOMAIN allTensors |-> allTensors[k].src ],
    ys |-> [ k \in DOMAIN ValidLabels |-> OneHot(ValidLabels[k], Size(labelMap)) ],
    numClasses |-> Size(labelMap) ]

\* After the last chunk: the emptiness check, then the stacking, which the
\* runtime may refuse (the catch of lines 212-216 rethrows); either way the
\* tensors of allTensors are disposed.
Assemble ==
  /\ UNCHANGED << asideVars, isSubmitting >>
  /\ pc = "chunk"
  /\ batchStart >= Len(imageFiles)
  /\ IF Len(allTensors) = 0
     THEN /\ Throw("load", EmptyDatasetError)
          /\ UNCHANGED << data, liveTensors >>
     ELSE /\ liveTensors' = liveTensors \ { allTensors[k].src : k \in DOMAIN allTensors }
          /\ \E stackOk \in BOOLEAN :
               IF stackOk
               THEN /\ data' = Stacked
                    /\ Goto("model")
               ELSE /\ Throw("load", StackError)
                    /\ UNCHANGED data
  /\ UNCHANGED << scanIx, labelMap, labelIndex, imageFiles, labels, batchStart,
                  batchTensors, allTensors, resume, model, epochsDone, calls, served >>
  /\ UNCHANGED << paramVars, fitVars, progress, upload >>

\* ------------------------------------------------ the contribution form

\* getModel (the project service): any refusal or failure is a non-2xx answer;
\* success is res.download of the zip AdmZip writes of the model directory.
ServerResponses ==
  { [ ok |-> FALSE, data |-> NullModel ] }
    \cup { [ ok |-> TRUE, data |-> ZipBytes(w) ] : w \in 1..MaxWidth }

\* String.fromCharCode(...uint8Array.slice(0, 2))
Header(bytes) == SubSeq(bytes, 1, Min(2, Len(bytes)))

\* The download handing on whatever bytes it received.
DownloadResultKeepsZip(resp) ==
  IF ~resp.ok THEN NullModel ELSE resp.data

\* downloadExistingModel: a failed request and a 'PK' header both yield null.
DownloadResult(resp) ==
  IF ~resp.ok THEN NullModel
  ELSE IF Header(resp.data.bytes) = <<"P","K">> THEN NullModel
  ELSE resp.data

\* handleSubmit up to its first await: an empty selection is refused with an alert.
Submit ==
  /\ UNCHANGED asideVars
  /\ pc = "idle"
  /\ \E fs \in FileLists :
       /\ files' = fs
       /\ pc' = IF Len(fs) = 0 THEN "alerted" ELSE "download"
       /\ isSubmitting' = (Len(fs) # 0)
  /\ caller' = "Contrib"
  /\ observer' = "quiet"
  /\ UNCHANGED << existingModel, epochs, loaderVars, resume, model, epochsDone, calls,
                  outcome, served, runVars >>

\* The model download settles; handleSubmit then calls trainModel, which
\* reports progress 0 and enters the loader.
Download ==
  /\ UNCHANGED << asideVars, isSubmitting >>
  /\ pc = "download"
  /\ \E resp \in ServerResponses :
       /\ served' = IF resp.ok THEN "zip" ELSE "error"
       /\ existingModel' = DownloadResult(resp)
  /\ pc' = "scan"
  /\ calls' = calls \cup { "loadDataFromDirectory" }
  /\ Report("start", Whole(0))
  /\ UNCHANGED << caller, files, observer, epochs, loaderVars, resume, model, epochsDone,
                  outcome, fitVars, failure, disposed, liveTensors, upload >>

\* The prior-model bytes another caller may pass.
PriorModels ==
  { NullModel, GarbageBytes, ZipBytes(MaxWidth) } \cup { JsonBytes(w) : w \in 1..MaxWidth }

\* ------------------------------------------------------------ trainModel

\* A caller other than the form calls trainModel; line 227 reports progress 0
\* inside the try, so a throwing callback fails the run at once.
CallTrainModel ==
  /\ UNCHANGED << asideVars, isSubmitting >>
  /\ pc = "idle"
  /\ \E fs \in FileLists, em \in PriorModels, obs \in { "none", "quiet", "throwing" } :
       /\ files' = fs
       /\ existingModel' = em
       /\ observer' = obs
       /\ progress' = IF obs = "none" THEN progress
                       ELSE [ phase |-> "start", num |-> 0, den |-> 1 ]
       /\ \E throws \in (IF obs = "throwing" THEN BOOLEAN ELSE { FALSE }) :
            IF throws THEN /\ Throw("start", CallbackError)
                           /\ UNCHANGED calls
            ELSE /\ Goto("scan")
                 /\ calls' = calls \cup { "loadDataFromDirectory" }
  /\ caller' = "direct"
  /\ UNCHANGED << epochs, loaderVars, resume, model, epochsDone, served, fitVars,
                  liveTensors, upload >>

\* loadTensorFlowJSModel(bytes): how the resume attempt may end. The loader
\* is given the bytes alone, so a loaded model has the width they describe.
LoadOutcomes(em) ==
  IF Header(em.bytes) = <<"P","K">> THEN { [ kind |-> "null", width |-> 0 ] }
  ELSE IF em.width > 0 THEN { [ kind |-> "loaded", width |-> em.width ] }
  ELSE { [ kind |-> "null", width |-> 0 ], [ kind |-> "throws", width |-> 0 ] }

\* createModel(numClasses, params): the output layer has numClasses units.
createModel(numClasses) == [ source |-> "fresh", width |-> numClasses ]

\* Lines 239-257 for one outcome o of the resume attempt.
ModelFor(em, o, numClasses) ==
  IF em.present
  THEN IF o.kind = "loaded"
       THEN [ source |-> "loaded", width |-> o.width ]
       ELSE createModel(numClasses)
  ELSE createModel(numClasses)

\* The operations lines 239-257 invoke for outcome o.
ModelCalls(em, o) ==
  IF em.present
  THEN IF o.kind = "loaded" THEN { "loadTensorFlowJSModel" }
       ELSE { "loadTensorFlowJSModel", "createModel" }
  ELSE { "createModel" }

LoadError == "loadTensorFlowJSModel threw"

\* The value reported once the model is chosen, and the base of the epochs' range.
ModelProgress == 35

\* The model choice without the inner try/catch of lines 240-253: a throw of
\* the resume attempt reaches trainModel's own catch.
ChooseModelNoCatch ==
  /\ UNCHANGED << asideVars, isSubmitting >>
  /\ pc = "model"
  /\ \E o \in (IF existingModel.present THEN LoadOutcomes(existingModel)
               ELSE { [ kind |-> "null", width |-> 0 ] }) :
       /\ resume' = IF existingModel.present THEN o.kind ELSE "none"
       /\ calls' = calls \cup ModelCalls(existingModel, o)
       /\ IF existingModel.present /\ o.kind = "throws"
          THEN /\ Throw("model", LoadError)
               /\ UNCHANGED << model, progress >>
          ELSE /\ model' = ModelFor(existingModel, o, data.numClasses)
               /\ Report("model", Whole(ModelProgress))
               /\ \E throws \in ObserverThrows :
                    IF throws THEN Throw("model", CallbackError)
                    ELSE Goto("fit")
  /\ UNCHANGED << epochs, epochsDone, loaderVars, served, caller, files, observer,
                  existingModel, fitVars, liveTensors, upload >>

\* Create or load the model, then report progress 35.
ChooseModel ==
  /\ UNCHANGED << asideVars, isSubmitting >>
  /\ pc = "model"
  /\ \E o \in (IF existingModel.present THEN LoadOutcomes(existingModel)
               ELSE { [ kind |-> "null", width |-> 0 ] }) :
       /\ resume' = IF existingModel.present THEN o.kind ELSE "none"
       /\ model' = ModelFor(existingModel, o, data.numClasses)
       /\ calls' = calls \cup ModelCalls(existingModel, o)
  /\ Report("model", Whole(ModelProgress))
  /\ \E throws \in ObserverThrows :
       IF throws THEN Throw("model", CallbackError)
       ELSE Goto("fit")
  /\ UNCHANGED << epochs, epochsDone, loaderVars, served, caller, files, observer,
                  existingModel, fitVars, liveTensors, upload >>

ShapeError == "target shape mismatch"
FitError == "fit failed"
BundleError == "createModelBundle failed"

\* model.fit checks the targets against the model's output layer.
ShapesAgree(m, d) == m.width = d.numClasses

\* The hard ceiling of the batch size used for fitting.
BatchCeiling == 16

\* The batch sizes a configuration asks for: below, at and above the ceiling.
BatchSizes == { 1, BatchCeiling, BatchCeiling + 1 }

\* The configured value passed on as it is.
TrainingBatchSizeUnclamped(configured) == configured

\* Math.min(params.trainingParams.batchSize, 16)
TrainingBatchSize(configured) == Min(configured, BatchCeiling)

\* model.fit is called with the configured epochs and the clamped batch size.
FitStart ==
  /\ UNCHANGED << asideVars, isSubmitting >>
  /\ pc = "fit"
  /\ calls' = calls \cup { "fit" }
  /\ \E e \in 1..MaxEpochs : epochs' = e
  /\ \E b \in BatchSizes :
       /\ paramsBatchSize' = b
       /\ trainingBatchSize' = TrainingBatchSize(b)
  /\ IF ShapesAgree(model, data)
     THEN Goto("fitting")
     ELSE Throw("fit", ShapeError)
  /\ UNCHANGED << epochsDone, loaderVars, resume, model, served, caller, files, observer,
                  existingModel, result, progress, liveTensors, upload >>

\* The share of the progress range the epochs report into.
EpochShare == 55

\* The value computed from the 0-based epoch number as it is.
EpochProgressZeroBased(epoch, total) ==
  [ num |-> ModelProgress * total + epoch * EpochShare, den |-> total ]

\* 35 + ((epoch + 1) / epochs) * 55, epoch being onEpochEnd's 0-based number
EpochProgress(epoch, total) ==
  [ num |-> ModelProgress * total + (epoch + 1) * EpochShare, den |-> total ]

\* One epoch ends and onEpochEnd reports progress; the epoch or the callback
\* may fail, which rejects fit.
FitEpoch ==
  /\ UNCHANGED << asideVars, isSubmitting >>
  /\ pc = "fitting"
  /\ epochsDone < epochs
  /\ \E fails \in BOOLEAN, throws \in ObserverThrows :
       IF fails THEN /\ Throw("fit", FitError)
                     /\ UNCHANGED << epochsDone, progress >>
       ELSE /\ epochsDone' = epochsDone + 1
            /\ Report("epoch", EpochProgress(epochsDone, epochs))
            /\ IF throws THEN Throw("fit", CallbackError) ELSE Goto("fitting")
  /\ UNCHANGED << epochs, loaderVars, resume, model, calls, served, caller, files, observer,
                  existingModel, fitVars, liveTensors, upload >>

\* The value reported once fit has resolved.
FitProgress == 95

\* fit resolves; progress 95 is reported.
FitDone ==
  /\ UNCHANGED << asideVars, isSubmitting >>
  /\ pc = "fitting"
  /\ epochsDone = epochs
  /\ Report("fit", Whole(FitProgress))
  /\ \E throws \in ObserverThrows :
       IF throws THEN Throw("report", CallbackError)
       ELSE Goto("bundle")
  /\ UNCHANGED << epochs, epochsDone, loaderVars, resume, model, calls, served, caller, files,
                  observer, existingModel, fitVars, liveTensors, upload >>

\* The value reported once the bundle is built.
DoneProgress == 100

\* The bundle's bytes: a zip archive holding the model's topology and weights.
BundleBytes(m) == << 80, 75, 3, 4, m.width >>

\* Lines 307-310: xs.dispose(); ys.dispose(); model.dispose() inside one try.
\* failAt names the call that throws (0: none); the calls after it are skipped.
DisposeSteps == << "xs", "ys", "model" >>

DisposeAll(failAt) ==
  IF failAt = 0 THEN { DisposeSteps[k] : k \in DOMAIN DisposeSteps }
  ELSE { DisposeSteps[k] : k \in 1..(failAt - 1) }

\* The success path with the try around the disposal removed: a throw of a
\* dispose call is what trainModel throws.
AfterCleanupUnguarded(failAt) == IF failAt = 0 THEN "returned" ELSE CleanupError

\* Lines 311-313 swallow a throw of the disposal: the run returns its result.
AfterCleanup(failAt) == "returned"

\* createModelBundle, the final metrics, progress 100, the disposal, the return.
Bundle ==
  /\ UNCHANGED << asideVars, isSubmitting >>
  /\ pc = "bundle"
  /\ calls' = calls \cup { "createModelBundle" }
  /\ \E fails \in BOOLEAN, throws \in ObserverThrows :
       IF fails THEN /\ Throw("bundle", BundleError)
                     /\ UNCHANGED << progress, result >>
       ELSE /\ Report("done", Whole(DoneProgress))
            /\ IF throws THEN /\ Throw("done", CallbackError)
                              /\ UNCHANGED result
               ELSE \E failAt \in 0..Len(DisposeSteps) :
                      /\ disposed' = disposed \cup DisposeAll(failAt)
                      /\ outcome' = AfterCleanup(failAt)
                      /\ pc' = IF AfterCleanup(failAt) = "returned" THEN "returned" ELSE "threw"
                      /\ result' = [ batchSize |-> trainingBatchSize, epochs |-> epochs,
                                     modelBlob |-> BundleBytes(model) ]
                      /\ failure' = IF failAt = 0 THEN failure
                                     ELSE [ at |-> "cleanup", error |-> CleanupError,
                                            cleanup |-> "none" ]
  /\ UNCHANGED << epochs, epochsDone, loaderVars, resume, model, served, caller, files,
                  observer, existingModel, paramsBatchSize, trainingBatchSize, liveTensors,
                  upload >>

\* --------------------------------------------- the contribution upload

HexDigits ==
  << "0", "1", "2", "3", "4", "5", "6", "7", "8", "9", "a", "b", "c", "d", "e", "f" >>

\* b.toString(16).padStart(2, '0')
ToHex(b) == << HexDigits[(b \div 16) + 1], HexDigits[(b % 16) + 1] >>

RECURSIVE HexJoin(_)
\* hashArray.map(toHex).join('')
HexJoin(bytes) ==
  IF Len(bytes) = 0 THEN << >> ELSE ToHex(bytes[1]) \o HexJoin(SubSeq(bytes, 2, Len(bytes)))

RECURSIVE WeightedSum(_, _)
WeightedSum(bytes, p) ==
  IF p > Len(bytes) THEN 0 ELSE p * bytes[p] + WeightedSum(bytes, p + 1)

\* crypto.subtle.digest: a function of the bytes it is given and of nothing
\* else. A two-byte checksum stands for the twenty bytes of SHA-1.
Digest(bytes) == << WeightedSum(bytes, 1) % 256, Len(bytes) % 256 >>

\* The buffer read short of the blob's last byte.
ArrayBufferShort(blob) == SubSeq(blob, 1, Len(blob) - 1)

\* modelBlob.arrayBuffer(): the blob's bytes
ArrayBuffer(blob) == blob

\* handleSubmit after trainModel resolved: the blob is hashed, then posted as
\* the file field next to the hex hash. When the hashing rejects, the catch
\* and the finally of handleSubmit run at once.
Upload ==
  /\ UNCHANGED asideVars
  /\ pc = "returned"
  /\ caller = "Contrib"
  /\ isSubmitting
  /\ \E hashFails \in BOOLEAN :
       IF hashFails
       THEN /\ isSubmitting' = FALSE
            /\ UNCHANGED << upload, pc >>
       ELSE /\ upload' = [ file   |-> result.modelBlob,
                           sha1   |-> HexJoin(Digest(ArrayBuffer(result.modelBlob))),
                           format |-> "tensorflowjs" ]
            /\ pc' = "uploaded"
            /\ UNCHANGED isSubmitting
  /\ UNCHANGED << outcome, failure, disposed, progress, fitVars, liveTensors, loaderVars,
                  paramVars, resume, model, epochsDone, calls, served >>

\* The end of handleSubmit: the upload's request settled (either way), or
\* trainModel rejected and the catch has alerted; the finally runs.
Settle ==
  /\ UNCHANGED asideVars
  /\ caller = "Contrib"
  /\ isSubmitting
  /\ pc \in { "uploaded", "threw" }
  /\ isSubmitting' = FALSE
  /\ UNCHANGED << pc, outcome, failure, disposed, progress, fitVars, liveTensors, loaderVars,
                  paramVars, resume, model, epochsDone, calls, served, upload >>

\* ------------------------------------------- the server's contribute

\* The sha1 fields requests carry, and the names the handler derives from
\* them: `${sha1Hash}.tfjs` and `temp_${sha1Hash}.zip`.
Hashes == { "h1", "h2" }
DirName == [ h \in Hashes |-> IF h = "h1" THEN "h1.tfjs" ELSE "h2.tfjs" ]
TempName == [ h \in Hashes |-> IF h = "h1" THEN "temp_h1.zip" ELSE "temp_h2.zip" ]

\* A path is the sequence of its segments, below the project's directory.
ContribPath == << "contrib" >>
ContributionDir(h) == Append(ContribPath, DirName[h])

\* What a file holds, as far as the handler reads it: for a model.json,
\* whether it parses and the paths its weightsManifest lists.
NoContent == [ json |-> "none", manifest |-> << >> ]
Json(paths) == [ json |-> "parsed", manifest |-> paths ]
BadJson == [ json |-> "invalid", manifest |-> << >> ]

\* The first bytes of an upload.
ZipMagic == << 80, 75, 3, 4 >>
JsonText == << 123, 34, 109, 34 >>

\* The uploads: their bytes, whether AdmZip can read them, their entries
\* and the content of their model.json (when they hold one).
Archive(bytes, readable, entries, content) ==
  [ bytes |-> bytes, readable |-> readable, entries |-> entries, content |-> content ]

Archives ==
  { Archive(ZipMagic, TRUE, { "model.json", "weights.bin" }, Json(<< << "weights.bin" >> >>)),
    Archive(ZipMagic, TRUE, { "model.json" }, Json(<< << "weights.bin" >> >>)),
    Archive(ZipMagic, TRUE, { "weights.bin" }, NoContent),
    Archive(ZipMagic, TRUE, { "model.json" }, Json(<< << ".." >> >>)),
    Archive(ZipMagic, TRUE, { "model.json" }, Json(<< >>)),
    Archive(ZipMagic, TRUE, { "model.json", "weights.bin" }, BadJson),
    Archive(ZipMagic, FALSE, { }, NoContent),
    Archive(JsonText, FALSE, { }, NoContent),
    Archive(<< 80, 75 >>, FALSE, { }, NoContent),
    Archive(<< >>, FALSE, { }, NoContent) }

\* An upload that would be accepted, and the absence of an upload.
CompleteArchive ==
  Archive(ZipMagic, TRUE, { "model.json", "weights.bin" }, Json(<< << "weights.bin" >> >>))
NoArchive == Archive(<< >>, FALSE, { }, NoContent)

\* A request: whether its project exists, who sends it, and its form fields.
\* A request that the handler turns away before it looks at the upload
\* carries the upload that would otherwise be accepted; a request without a
\* file carries no bytes.
Requests ==
  { r \in [ projectFound : BOOLEAN,
            who          : { "owner", "collaborator", "stranger", "unknown" },
            hasFile      : BOOLEAN,
            sha1         : Hashes \cup { "" },
            archive      : Archives ] :
      /\ ~r.hasFile => r.archive = NoArchive
      /\ (~r.projectFound \/ r.who \in { "stranger", "unknown" }) =>
           /\ r.hasFile
           /\ r.sha1 \in Hashes
           /\ r.archive = CompleteArchive }

\* isZipFile: the three zip magic numbers
IsZipFile(buffer) ==
  /\ Len(buffer) >= 4
  /\ buffer[1] = 80
  /\ buffer[2] = 75
  /\ \/ buffer[3] = 3 /\ buffer[4] = 4
     \/ buffer[3] = 5 /\ buffer[4] = 6
     \/ buffer[3] = 7 /\ buffer[4] = 8

RECURSIVE PathJoinFrom(_, _, _)
PathJoinFrom(acc, rel, p) ==
  IF p > Len(rel) THEN acc
  ELSE IF rel[p] = ".."
       THEN PathJoinFrom(IF Len(acc) = 0 THEN acc ELSE SubSeq(acc, 1, Len(acc) - 1), rel, p + 1)
  ELSE IF rel[p] = "." THEN PathJoinFrom(acc, rel, p + 1)
  ELSE PathJoinFrom(Append(acc, rel[p]), rel, p + 1)

\* path.join(base, rel): `.` and `..` segments are resolved.
PathJoin(base, rel) == PathJoinFrom(base, rel, 1)

\* fs.existsSync; the project's own directory (the empty path) exists.
ExistsSync(fs, path) == path = << >> \/ \E f \in fs : f.path = path

\* A file or directory written at path, replacing what was there.
Written(fs, path, content) ==
  { f \in fs : f.path # path } \cup { [ path |-> path, content |-> content ] }

\* fs.mkdirSync(path, { recursive: true }) of a directory below contrib
MkdirSync(fs, dir) ==
  LET made == IF ExistsSync(fs, ContribPath) THEN fs ELSE Written(fs, ContribPath, NoContent)
  IN  IF ExistsSync(made, dir) THEN made ELSE Written(made, dir, NoContent)

\* fs.rmSync(dir, { recursive: true, force: true })
RmSync(fs, dir) ==
  { f \in fs : ~(Len(f.path) >= Len(dir) /\ SubSeq(f.path, 1, Len(dir)) = dir) }

\* fs.unlinkSync
UnlinkSync(fs, path) == { f \in fs : f.path # path }

\* zip.extractAllTo(dir, true): every entry is written, overwriting.
ExtractAllTo(fs, dir, a) ==
  { f \in fs : \A e \in a.entries : f.path # Append(dir, e) }
    \cup { [ path    |-> Append(dir, e),
             content |-> IF e = "model.json" THEN a.content ELSE NoContent ] : e \in a.entries }

\* fs.readFileSync(path)
ReadFileSync(fs, path) == (CHOOSE f \in fs : f.path = path).content

\* Lines 828-838: the manifest paths that do not exist below the directory.
MissingWeights(fs, dir, manifest) ==
  { k \in DOMAIN manifest : ~ExistsSync(fs, PathJoin(dir, manifest[k])) }

Answer(status, fs, exec) == [ status |-> status, fs |-> fs, exec |-> exec ]

\* Lines 794-867: the archive is saved, extracted and validated.
Extracted(fs, req) ==
  LET dir  == ContributionDir(req.sha1)
      temp == Append(ContribPath, TempName[req.sha1])
      fs1  == Written(MkdirSync(fs, dir), temp, NoContent)
  IN  IF ~req.archive.readable THEN Answer(400, fs1, FALSE)
      ELSE LET fs2 == UnlinkSync(ExtractAllTo(fs1, dir, req.archive), temp)
               modelJsonPath == PathJoin(dir, << "model.json" >>)
           IN  IF ~ExistsSync(fs2, modelJsonPath) THEN Answer(400, RmSync(fs2, dir), FALSE)
               ELSE LET modelJson == ReadFileSync(fs2, modelJsonPath)
                    IN  IF modelJson.json # "parsed" THEN Answer(400, RmSync(fs2, dir), FALSE)
                        ELSE IF MissingWeights(fs2, dir, modelJson.manifest) # { }
                             THEN Answer(400, RmSync(fs2, dir), FALSE)
                        ELSE Answer(0, fs2, TRUE)

\* The handler without the owner-or-collaborator check of lines 709-714.
HandledNoAuthorization(fs, req) ==
  IF ~req.projectFound THEN Answer(404, fs, FALSE)
  ELSE IF req.who = "unknown" THEN Answer(404, fs, FALSE)
  ELSE IF ~req.hasFile THEN Answer(400, fs, FALSE)
  ELSE IF req.sha1 = "" THEN Answer(400, fs, FALSE)
  ELSE IF Len(req.archive.bytes) = 0 THEN Answer(400, fs, FALSE)
  ELSE IF ~IsZipFile(req.archive.bytes) THEN Answer(400, fs, FALSE)
  ELSE Extracted(fs, req)

\* Lines 691-876: the handler from the request to its answer, or to the
\* start of the contribution script (status 0: no answer yet).
Handled(fs, req) ==
  IF ~req.projectFound THEN Answer(404, fs, FALSE)
  ELSE IF req.who = "unknown" THEN Answer(404, fs, FALSE)
  ELSE IF req.who = "stranger" THEN Answer(403, fs, FALSE)
  ELSE IF ~req.hasFile THEN Answer(400, fs, FALSE)
  ELSE IF req.sha1 = "" THEN Answer(400, fs, FALSE)
  ELSE IF Len(req.archive.bytes) = 0 THEN Answer(400, fs, FALSE)
  ELSE IF ~IsZipFile(req.archive.bytes) THEN Answer(400, fs, FALSE)
  ELSE Extracted(fs, req)

\* contribute, up to its answer or to exec(command, ...).
Contribute(req) ==
  /\ Len(requests) < MaxRequests
  /\ LET a == Handled(fsys, req)
     IN  /\ fsys' = a.fs
         /\ requests' = Append(requests,
                          [ archive |-> req.archive, sha1 |-> req.sha1, user |-> req.who,
                            project |-> req.projectFound,
                            status |-> a.status, ran |-> a.exec, recorded |-> FALSE,
                            script |-> IF a.exec THEN "running" ELSE "none",
                            pushed |-> FALSE,
                            sent |-> IF a.status = 0 THEN 0 ELSE 1 ])
  /\ UNCHANGED contributions
  /\ UNCHANGED << clientVars, metricVars, projectVars >>

\* The ways the callback of exec can go: the script failed; it exited cleanly
\* and the save failed; the save succeeded and the push failed; all succeeded.
ScriptEnds == { "execError", "saveFailed", "pushFailed", "saved" }

\* The callback of exec saving the Contribution whatever the script's exit.
SavedAfterIgnoringExit(end) == end \in { "execError", "pushFailed", "saved" }

\* Lines 878-899: the callback returns 500 on a script error before it
\* builds the Contribution; the save itself may fail.
SavedAfter(end) == end \in { "pushFailed", "saved" }

\* The callback of exec (lines 877-918): a failed script answers 500; else
\* the Contribution is saved and pushed to the project, and either step may fail.
ScriptExit(i) ==
  /\ i \in DOMAIN requests
  /\ requests[i].ran
  /\ requests[i].status = 0
  /\ \E end \in ScriptEnds :
       LET saved == SavedAfter(end)
       IN  /\ requests' = [ requests EXCEPT ![i].status = IF end = "saved" THEN 200 ELSE 500,
                                            ![i].recorded = saved,
                                            ![i].script = IF end = "execError" THEN "failed"
                                                          ELSE "exited",
                                            ![i].pushed = (end = "saved"),
                                            ![i].sent = @ + 1 ]
           /\ contributions' = IF saved
                               THEN Append(contributions, [ hash |-> requests[i].sha1,
                                                            user |-> requests[i].user ])
                               ELSE contributions
  /\ UNCHANGED fsys
  /\ UNCHANGED << clientVars, metricVars, projectVars >>

\* ------------------------------------------- the final metrics

\* A series of n values, one per epoch.
Series(n) == { [ present |-> TRUE, values |-> v ] : v \in [ 1..n -> 0..MaxMetric ] }

\* The histories model.fit resolves with after n epochs: loss is always
\* there; the accuracy metric is logged as acc, as accuracy, as both or
\* not at all.
Histories ==
  UNION { [ acc : Series(n) \cup { Absent },
            accuracy : Series(n) \cup { Absent },
            loss : Series(n) ] : n \in 1..MaxEpochs }

\* series[series.length - 1]
LastEntry(series) == series.values[Len(series.values)]

\* The accuracy looked up under 'accuracy' before 'acc'.
FinalAccuracyPrefersAccuracy(h) ==
  IF h.accuracy.present THEN LastEntry(h.accuracy)
  ELSE IF h.acc.present THEN LastEntry(h.acc)
  ELSE 0

\* Lines 296-302: let finalAccuracy = 0; if (acc) ... else if (accuracy) ...
FinalAccuracy(h) ==
  IF h.acc.present THEN LastEntry(h.acc)
  ELSE IF h.accuracy.present THEN LastEntry(h.accuracy)
  ELSE 0

\* Line 295: history.history.loss[history.history.loss.length - 1]
FinalLoss(h) == LastEntry(h.loss)

\* trainModel computes the final metrics from the history fit resolved with.
FinalMetrics ==
  /\ ~metrics.computed
  /\ history # NoHistory
  /\ metrics' = [ computed |-> TRUE, accuracy |-> FinalAccuracy(history),
                  loss |-> FinalLoss(history) ]
  /\ UNCHANGED << history, clientVars, serverVars, projectVars >>

MetricsInit ==
  /\ Started
  /\ history \in Histories
  /\ uniqueIndex = FALSE

MetricsNext == FinalMetrics

MetricsSpec == MetricsInit /\ [][MetricsNext]_vars

\* ------------------------------------------- the server's createProject

\* A name is the sequence of its characters.
Names == { << >>, << " " >>, << "p" >>, << "p", " " >>, << "q" >> }

RECURSIVE TrimStart(_)
TrimStart(name) ==
  IF Len(name) > 0 /\ name[1] = " " THEN TrimStart(SubSeq(name, 2, Len(name))) ELSE name

RECURSIVE TrimEnd(_)
TrimEnd(name) ==
  IF Len(name) > 0 /\ name[Len(name)] = " " THEN TrimEnd(SubSeq(name, 1, Len(name) - 1))
  ELSE name

\* name.trim()
Trim(name) == TrimEnd(TrimStart(name))

\* A createProject request: its name, whether its sender is authenticated
\* and known, and whether its configuration values pass the validation.
Creates ==
  [ name : Names, owner : { "none", "unknown", "user" }, config : { "valid", "invalid" } ]

NameRequired == "Project name is required."
AuthRequired == "User authentication required."
MustBeUnique == "Project name must be unique."
UserNotFound == "User not found."
BadConfig == "invalid configuration value"
ScriptFailed == "Error executing Python script"
Created == "Project created successfully!"
ErrorCreating == "Error creating project"
NoMessage == "none"

Reply(status, message) == [ status |-> status, message |-> message ]

\* Project.findOne({ name }): the stored names are compared with the name as sent.
FindOne(stored, name) == \E k \in DOMAIN stored : stored[k] = name

\* Lines 24-76: the checks before the project document is built; status 0
\* stands for passing them all.
Validated(stored, req) ==
  IF Len(Trim(req.name)) = 0 THEN Reply(400, NameRequired)
  ELSE IF req.owner = "none" THEN Reply(400, AuthRequired)
  ELSE IF FindOne(stored, req.name) THEN Reply(400, MustBeUnique)
  ELSE IF req.owner = "unknown" THEN Reply(404, UserNotFound)
  ELSE IF req.config = "invalid" THEN Reply(400, BadConfig)
  ELSE Reply(0, NoMessage)

\* createProject up to its answer or to exec(command, ...): the document is
\* built with the trimmed name, the folders and config.txt are written under
\* the name as sent, and the init script is started.
CreateProject(req) ==
  /\ Len(creating) < MaxCreates
  /\ LET a == Validated(projects, req)
     IN  creating' = Append(creating,
                       [ name |-> req.name, document |-> Trim(req.name),
                         status |-> a.status, message |-> a.message,
                         folder |-> (a.status = 0),
                         script |-> IF a.status = 0 THEN "running" ELSE "none" ])
  /\ UNCHANGED << projects, uniqueIndex >>
  /\ UNCHANGED << clientVars, serverVars, metricVars >>

\* newProject.save(): refused by a unique index on the name when there is
\* one; it may also fail for reasons of the database's own.
SaveOutcomes(stored, document, indexed) ==
  IF indexed /\ FindOne(stored, document) THEN { "rejected" } ELSE { "saved", "rejected" }

\* The callback of exec (lines 128-155): a failed script answers 500; else the
\* document is saved and 201 answered, or the save's error is answered 400.
InitScriptExit(i) ==
  /\ i \in DOMAIN creating
  /\ creating[i].script = "running"
  /\ \E failed \in BOOLEAN :
       IF failed
       THEN /\ creating' = [ creating EXCEPT ![i].status = 500, ![i].message = ScriptFailed,
                                              ![i].script = "failed" ]
            /\ UNCHANGED projects
       ELSE \E saving \in SaveOutcomes(projects, creating[i].document, uniqueIndex) :
              IF saving = "saved"
              THEN /\ projects' = Append(projects, creating[i].document)
                   /\ creating' = [ creating EXCEPT ![i].status = 201, ![i].message = Created,
                                                    ![i].script = "exited" ]
              ELSE /\ UNCHANGED projects
                   /\ creating' = [ creating EXCEPT ![i].status = 400,
                                                    ![i].message = ErrorCreating,
                                                    ![i].script = "exited" ]
  /\ UNCHANGED uniqueIndex
  /\ UNCHANGED << clientVars, serverVars, metricVars >>

\* The Project schema is not part of the controller: the collection may or
\* may not carry a unique index on the name.
ProjectInit ==
  /\ Started
  /\ history = NoHistory
  /\ uniqueIndex \in BOOLEAN

ProjectNext ==
  \/ \E req \in Creates : CreateProject(req)
  \/ \E i \in 1..MaxCreates : InitScriptExit(i)

ProjectSpec == ProjectInit /\ [][ProjectNext]_vars

Next ==
  \/ Submit
  \/ Download
  \/ CallTrainModel
  \/ ScanFile
  \/ ScanDone
  \/ Sample
  \/ StartChunk
  \/ \E k \in 1..batchSize : ItemLoaded(k)
  \/ JoinChunk
  \/ Assemble
  \/ ChooseModel
  \/ FitStart
  \/ FitEpoch
  \/ FitDone
  \/ Bundle
  \/ Upload
  \/ Settle

Spec == Init /\ [][Next]_vars

\* The server on its own: requests arrive from any client.
ServerNext ==
  \/ \E req \in Requests : Contribute(req)
  \/ \E i \in 1..MaxRequests : ScriptExit(i)

ServerSpec == Init /\ [][ServerNext]_vars

\* ================================================================ claims

\* What the claims compare the loader's state with, read off the selection
\* itself and not off the loader's own parsing.

Max(S) == CHOOSE m \in S : \A x \in S : x <= m

\* The pool's files whose content type begins with the six characters image/ .
ImageTyped ==
  { f \in FileIds :
      LET t == FilePool[f].type
      IN  /\ Len(t) >= Len(ImagePrefix)
          /\ \A p \in DOMAIN ImagePrefix : t[p] = ImagePrefix[p] }

TypeIsImage(f) == f \in ImageTyped

\* The text between the last two slashes of the path (from its start when
\* there is one slash only).
ParentDirNames ==
  [ f \in FileIds |->
      LET path    == FilePool[f].path
          slashes == { p \in DOMAIN path : path[p] = "/" }
          last    == Max(slashes)
          before  == { p \in slashes : p < last }
          prev    == IF before = { } THEN 0 ELSE Max(before)
      IN  SubSeq(path, prev + 1, last - 1) ]

ParentDirName(f) == ParentDirNames[f]

\* The positions of the selection that hold an image.
AcceptedPositions == { k \in DOMAIN files : TypeIsImage(files[k]) }

AcceptedParents == { ParentDirName(files[k]) : k \in AcceptedPositions }

\* The scan loop has run to its end.
ScanFinished ==
  /\ "loadDataFromDirectory" \in calls
  /\ pc \notin { "scan" }

LoadReturned == data # NoData

\* C1: numClasses (the LabelMap's size) equals the number of distinct
\* immediate-parent-directory names among the files whose content type starts
\* with image/; a file of another type adds neither a sample nor a label.
C1_NumClassesCountsImageParents ==
  /\ ScanFinished =>
       /\ DOMAIN labelMap = AcceptedParents
       /\ Size(labelMap) = Cardinality(AcceptedParents)
  /\ \A k \in DOMAIN imageFiles : TypeIsImage(imageFiles[k])
  /\ LoadReturned =>
       /\ data.numClasses = Cardinality(AcceptedParents)
       /\ \A k \in DOMAIN data.xs : TypeIsImage(data.xs[k])

\* A load returned for a selection holding a non-image file whose directory
\* holds no image, next to images of two directories.
C1_Witness ==
  /\ LoadReturned
  /\ data.numClasses = 2
  /\ \E k \in DOMAIN files :
       /\ ~TypeIsImage(files[k])
       /\ ParentDirName(files[k]) \notin AcceptedParents

\* C2: a returned Dataset has as many rows in xs as in ys, and at most
\* min(number of accepted image files, the budget) of them.
C2_RowsAgreeAndBounded ==
  LoadReturned =>
    /\ Len(data.xs) = Len(data.ys)
    /\ Len(data.xs) <= Min(Cardinality(AcceptedPositions), maxImages)

\* A load returned a full budget of rows out of a larger selection.
C2_Witness ==
  /\ LoadReturned
  /\ Cardinality(AcceptedPositions) > maxImages
  /\ Len(data.xs) = maxImages
  /\ Len(data.ys) = maxImages

\* C3: row i of the one-hot label tensor encodes the label index of the file
\* row i of the input tensor was decoded from, also when items of the
\* selection were dropped.
C3_RowsPairedWithOwnLabel ==
  LoadReturned =>
    \A k \in DOMAIN data.xs :
      /\ k \in DOMAIN data.ys
      /\ \A c \in DOMAIN data.ys[k] :
           data.ys[k][c] = (IF c = labelMap[ParentDirName(data.xs[k])] THEN 1 ELSE 0)

\* The loader is between its first and its last step.
Loading == pc \in { "scan", "sample", "chunk", "await" }

\* C4: an image that fails to decode is dropped and the loader goes on to
\* return or to fail with the empty-dataset error: while a load is under way
\* some step of it can always be taken, it never hangs.
C4_LoadNeverHangs == Loading => ENABLED Next

\* The accepted files in scan order, as the scan leaves them in imageFiles.
AcceptedFiles == SelectSeq(files, LAMBDA f : TypeIsImage(f))

\* The sampling step is behind.
Sampled ==
  /\ "loadDataFromDirectory" \in calls
  /\ pc \notin { "scan", "sample" }

\* C5: over the budget, exactly maxImages entries are retained, they are
\* pairwise distinct positions of the original list, and every retained
\* file keeps its own label index.
C5_SampleIsPrefixOfPermutation ==
  (Sampled /\ Len(AcceptedFiles) > maxImages) =>
    /\ Len(imageFiles) = maxImages
    /\ Len(labels) = maxImages
    /\ \A k \in DOMAIN imageFiles :
         /\ \E q \in DOMAIN AcceptedFiles : AcceptedFiles[q] = imageFiles[k]
         /\ labels[k] = labelMap[ParentDirName(imageFiles[k])]
    /\ \A k, q \in DOMAIN imageFiles : k # q => imageFiles[k] # imageFiles[q]

\* A sample that is not the head of the original list, holding two labels.
C5_Witness ==
  /\ Sampled
  /\ Len(AcceptedFiles) > maxImages
  /\ imageFiles # SubSeq(AcceptedFiles, 1, maxImages)
  /\ \E k, q \in DOMAIN labels : labels[k] # labels[q]

ModelOps == { "createModel", "loadTensorFlowJSModel", "fit", "createModelBundle" }

\* loadDataFromDirectory has returned or thrown.
LoadFinished ==
  /\ "loadDataFromDirectory" \in calls
  /\ ~Loading

\* No tensor has come out of any decode of this load.
NothingDecoded ==
  /\ Len(allTensors) = 0
  /\ \A k \in DOMAIN batchTensors : batchTensors[k].st # "tensor"

\* C6: when no image is decoded (an empty selection included) the load
\* fails with the empty-dataset error, which is what trainModel throws to
\* its caller, and the run invokes neither the model construction, nor fit,
\* nor createModelBundle: a run that has come to rest with nothing decoded
\* rests on that error.
C6_ZeroDecodedFailsWithEmptyDataset ==
  /\ ("loadDataFromDirectory" \in calls /\ NothingDecoded /\ ~ENABLED Next) =>
       /\ pc = "threw"
       /\ outcome = EmptyDatasetError
  /\ NothingDecoded => calls \cap ModelOps = { }

\* C6, the part the code keeps: once the loader has ended with no tensor
\* kept, trainModel has thrown the empty-dataset error and returned no
\* Dataset, and no model operation is invoked while no tensor is kept.
C6_EndedLoadFailsBeforeModel ==
  /\ (LoadFinished /\ Len(allTensors) = 0) =>
       /\ pc = "threw"
       /\ outcome = EmptyDatasetError
       /\ data = NoData
  /\ Len(allTensors) = 0 =>
       /\ calls \cap ModelOps = { }
       /\ model = NoModel

\* The accepted positions the scan has passed.
ScannedPositions == { k \in AcceptedPositions : k <= scanIx }

\* Where label l was first seen among the scanned accepted files.
FirstSeen(l) ==
  LET at == { k \in ScannedPositions : ParentDirName(files[k]) = l }
  IN  CHOOSE k \in at : \A q \in at : k <= q

C7_MapIsDenseBijection ==
  /\ DOMAIN labelMap = { ParentDirName(files[k]) : k \in ScannedPositions }
  /\ { labelMap[l] : l \in DOMAIN labelMap } = 0..(Size(labelMap) - 1)
  /\ \A l1, l2 \in DOMAIN labelMap : l1 # l2 => labelMap[l1] # labelMap[l2]
  /\ \A l1, l2 \in DOMAIN labelMap :
       (labelMap[l1] < labelMap[l2]) <=> (FirstSeen(l1) < FirstSeen(l2))
  /\ \A k \in DOMAIN labels : labels[k] \in 0..(Size(labelMap) - 1)

C7_IndexKept ==
  \A l \in DOMAIN labelMap : l \in DOMAIN labelMap' /\ labelMap'[l] = labelMap[l]

\* C7: within one load the LabelMap is a bijection between the labels seen
\* and 0..size-1, indices follow first-seen order, an assigned index never
\* changes, and every recorded label index is below the map's size.
C7_LabelMapBijective == [] C7_MapIsDenseBijection /\ [][C7_IndexKept]_vars

\* The scan ended on three accepted files of two labels, the first label
\* seen again after the second.
C7_Witness ==
  /\ pc = "sample"
  /\ Len(labels) = 3
  /\ labels[1] # labels[2]
  /\ labels[3] = labels[1]
  /\ Size(labelMap) = 2

\* C8: given prior bytes, when loadTensorFlowJSModel returns no model or
\* throws, trainModel builds a fresh model with createModel and goes on to
\* train; the resume attempt's exception never is what trainModel throws.
C8_ResumeFailureFallsBack ==
  /\ resume \in { "null", "throws" } =>
       /\ existingModel.present
       /\ "createModel" \in calls
       /\ model = [ source |-> "fresh", width |-> data.numClasses ]
       /\ pc \in { "fit", "fitting", "bundle", "returned", "threw" }
       /\ pc = "threw" => outcome \in { CallbackError, FitError, BundleError }
  /\ outcome # LoadError

\* The resume attempt threw and the run still returned its result.
C8_Witness ==
  /\ resume = "throws"
  /\ model.source = "fresh"
  /\ pc = "returned"

\* C9: the model handed to fit has an output width equal to the numClasses
\* of the Dataset loaded in the same run, on the fresh path and on the
\* resume path.
C9_WidthMatchesNumClasses ==
  "fit" \in calls => model.width = data.numClasses

\* C10: a bundle the project service serves back is usable for a resume:
\* when the form has downloaded the project's model and trainModel has chosen
\* its model, training starts from the deserialized prior model.
C10_ServedBundleResumes ==
  (caller = "Contrib" /\ served = "zip" /\ model # NoModel) =>
    model.source = "loaded"

\* C10, what the code does instead: a run of the form never makes a resume
\* attempt, whatever the service answered.
C10_FormNeverResumes ==
  caller = "Contrib" =>
    /\ ~existingModel.present
    /\ "loadTensorFlowJSModel" \notin calls
    /\ model.source # "loaded"

\* trainModel has resolved with its result.
Returned == pc \in { "returned", "uploaded" }

\* The run is over: trainModel has resolved or thrown.
Ended == Returned \/ pc = "threw"

\* C11: the batch size fit is called with is min(configured, 16) for every
\* configured batch size of at least 1, a configured value above 16 raises
\* no error of its own, and the metadata of the returned result reports the
\* clamped value.
C11_BatchSizeClamped ==
  /\ "fit" \in calls =>
       /\ paramsBatchSize >= 1
       /\ trainingBatchSize <= BatchCeiling
       /\ trainingBatchSize = (IF paramsBatchSize <= BatchCeiling THEN paramsBatchSize
                               ELSE BatchCeiling)
       /\ (pc = "threw" /\ failure.at = "fit") =>
            outcome \in { ShapeError, FitError, CallbackError }
  /\ Returned =>
       result.batchSize = (IF paramsBatchSize <= BatchCeiling THEN paramsBatchSize
                           ELSE BatchCeiling)

\* A run configured above the ceiling returned, reporting the ceiling.
C11_Witness ==
  /\ pc = "returned"
  /\ paramsBatchSize > BatchCeiling
  /\ trainingBatchSize = BatchCeiling
  /\ result.batchSize = BatchCeiling

\* C12: an error raised during model.fit is the error trainModel throws to
\* its caller, after disposeVariables has been tried; when that disposal
\* throws, the caller still receives the error of fit.
C12_FitErrorReachesCaller ==
  failure.at = "fit" =>
    /\ pc = "threw"
    /\ failure.error \in { ShapeError, FitError, CallbackError }
    /\ outcome = failure.error
    /\ failure.cleanup \in { "done", "threw" }
    /\ failure.cleanup = "done" => "variables" \in disposed

\* An epoch failed, the disposal of the variables threw as well.
C12_Witness ==
  /\ failure.at = "fit"
  /\ failure.error = FitError
  /\ failure.cleanup = "threw"
  /\ outcome = FitError

\* C13: a progress callback that throws, at any of its call sites, neither
\* fails the run nor drops a decoded sample.
C13_ThrowingObserverHarmless ==
  /\ outcome # CallbackError
  /\ \A k \in DOMAIN batchTensors : batchTensors[k] # NullTensor

\* C14: every value reported while the data is loaded lies in [0, 30].
C14_LoadProgressInRange ==
  progress.phase = "load" =>
    /\ progress.den > 0
    /\ 0 <= progress.num
    /\ progress.num <= LoadShare * progress.den

\* The last item of a selection of several chunks reported a value above 0.
C14_Witness ==
  /\ progress.phase = "load"
  /\ batchStart > 0
  /\ Len(imageFiles) = maxImages
  /\ progress.num = (Len(imageFiles) - 1) * LoadShare
  /\ progress.den = Len(imageFiles)

\* C15: after epoch k of E the value reported is 35 + (k / E) * 55, which
\* lies in [35, 90] and is exactly 90 after the last epoch.
C15_EpochProgress ==
  progress.phase = "epoch" =>
    /\ epochs >= 1
    /\ epochsDone \in 1..epochs
    /\ progress.den > 0
    /\ progress.num * epochs = (35 * epochs + epochsDone * 55) * progress.den
    /\ 35 * progress.den <= progress.num
    /\ progress.num <= 90 * progress.den
    /\ epochsDone = epochs => progress.num = 90 * progress.den

\* The first of several epochs reported a value strictly between 35 and 90.
C15_Witness ==
  /\ progress.phase = "epoch"
  /\ epochs > 1
  /\ epochsDone = 1
  /\ 35 * progress.den < progress.num
  /\ progress.num < 90 * progress.den

\* C16: the hex hash of the upload is computed over exactly the bytes of
\* the blob sent as the file field of the same request, and that blob is
\* the one trainModel returned.
C16_HashIsOfUploadedBytes ==
  upload # NoUpload =>
    /\ upload.file = result.modelBlob
    /\ upload.sha1 = HexJoin(Digest(upload.file))
    /\ Len(upload.sha1) = 2 * Len(Digest(upload.file))

\* The form posted a bundle and its hash.
C16_Witness ==
  /\ pc = "uploaded"
  /\ Len(upload.file) > 0
  /\ Len(upload.sha1) > 0
  /\ upload.format = "tensorflowjs"

\* C18: on every exit path of a run the Dataset tensors and the model are
\* released; disposeVariables counts as releasing the model.
C18_AllReleasedAtExit ==
  Ended =>
    /\ data # NoData => { "xs", "ys" } \subseteq disposed
    /\ model # NoModel => ("model" \in disposed \/ "variables" \in disposed)

C19_DisposalWindow ==
  /\ disposed \cap { "xs", "ys", "model" } # { } =>
       /\ "createModelBundle" \in calls
       /\ result # NoResult
       /\ Returned
  /\ (Returned /\ failure = NoFailure) => { "xs", "ys", "model" } \subseteq disposed
  /\ Returned => outcome = "returned"
  /\ failure.at = "cleanup" => Returned
  /\ outcome # CleanupError

C19_NoUseAfterDispose ==
  "model" \in disposed => calls' = calls

\* C19: on a successful run xs, ys and the model are disposed only after
\* createModelBundle has completed and before trainModel returns, the model
\* is used by no fit and no bundling once disposed, and a disposal that
\* throws does not fail the run.
C19_DisposedAfterBundle == [] C19_DisposalWindow /\ [][C19_NoUseAfterDispose]_vars

\* A run returned although ys.dispose() threw.
C19_Witness ==
  /\ pc = "returned"
  /\ failure.at = "cleanup"
  /\ disposed = { "xs" }
  /\ result # NoResult

\* C20: by the time loadDataFromDirectory has returned or thrown, every
\* per-item tensor it created has been disposed.
C20_ItemTensorsDisposed ==
  LoadFinished => liveTensors = { }

\* The archive holds model.json, the file parses, and every path its
\* weightsManifest lists is the name of an entry of the archive.
ArchiveComplete(a) ==
  /\ a.readable
  /\ "model.json" \in a.entries
  /\ a.content.json = "parsed"
  /\ \A k \in DOMAIN a.content.manifest :
       \E e \in a.entries : a.content.manifest[k] = << e >>

\* C17: contribute runs the contribution script and records a Contribution
\* only if the uploaded archive holds model.json and every weight file its
\* weightsManifest lists; a request that got as far as the archive check
\* with any other archive is answered 400 and records nothing.
C17_OnlyCompleteArchivesContribute ==
  /\ Len(contributions) = Cardinality({ i \in DOMAIN requests : requests[i].recorded })
  /\ \A i \in DOMAIN requests :
       LET r == requests[i]
       IN  /\ (r.ran \/ r.recorded) => ArchiveComplete(r.archive)
           /\ (~ArchiveComplete(r.archive) /\ r.status \notin { 403, 404 }) =>
                /\ r.status = 400
                /\ ~r.ran
                /\ ~r.recorded

\* The decodes of the current chunk that have started and not settled.
InFlight == { k \in DOMAIN batchTensors : batchTensors[k] = Pending }

\* C21, the bound: never more than one chunk's worth of decodes in flight.
C21_InFlightBounded == Cardinality(InFlight) <= batchSize /\ Len(batchTensors) <= batchSize

\* C21, the join: the loop moves to the next chunk only from a state in which
\* no decode of the current chunk is still in flight, and a chunk is started
\* only when none is.
C21_JoinBeforeAdvance ==
  /\ batchStart' # batchStart => InFlight = { }
  /\ (pc = "chunk" /\ pc' = "await") => InFlight = { }

\* C21: decoding proceeds in chunks of at most batchSize items; no item of the
\* next chunk starts before every item of the current one has settled, so at
\* most batchSize decodes are in flight, and the items of one chunk may settle
\* in any order.
C21_ChunkedDecoding == [] C21_InFlightBounded /\ [][C21_JoinBeforeAdvance]_vars

\* Inside one chunk the last item has settled while the first is in flight.
C21_OutOfOrder ==
  /\ pc = "await"
  /\ Len(batchTensors) = batchSize
  /\ batchTensors[1] = Pending
  /\ batchTensors[batchSize] # Pending

\* C21 witness: the second chunk is in flight, after a full first chunk whose
\* items have all settled and been kept.
C21_Witness ==
  /\ pc = "await"
  /\ batchStart = batchSize
  /\ Len(allTensors) = batchSize
  /\ InFlight # { }

\* C23: in the contribution flow a download that failed or whose bytes start
\* with 'PK' yields no model; the submit goes on into trainModel, no resume
\* is attempted, and the model trained is a freshly constructed one.
C23_DiscardedDownloadTrainsFresh ==
  (caller = "Contrib" /\ served \in { "zip", "error" }) =>
    /\ existingModel = NullModel
    /\ resume = "none"
    /\ outcome # LoadError
    /\ pc \notin { "idle", "download", "alerted" }
    /\ model # NoModel => model = createModel(data.numClasses)
    /\ pc \in { "fit", "fitting", "bundle", "returned", "uploaded" } =>
         /\ model # NoModel
         /\ "createModel" \in calls

\* C23 witness: the download failed and the fit runs on a fresh model; and
\* likewise after a served zip.
C23_Witness ==
  /\ caller = "Contrib"
  /\ served = "error"
  /\ pc = "fitting"
  /\ model.source = "fresh"

\* C24: each progress value delivered is at least the one delivered before it.
C24_ProgressNeverDecreases ==
  [][progress'.num * progress.den >= progress.num * progress'.den]_vars

\* The value last delivered lies within [0, 100].
ProgressInRange == 0 <= progress.num /\ progress.num <= DoneProgress * progress.den

\* C25: every value delivered lies within [0, 100]; between the fit and the
\* bundling the last value is 95; after a successful run it is 100; after a
\* failed run 100 was not delivered.
C25_ProgressMilestones ==
  /\ ProgressInRange
  /\ (pc = "bundle" /\ observer # "none") =>
       progress.phase = "fit" /\ progress = [ phase |-> "fit", num |-> FitProgress, den |-> 1 ]
  /\ (Returned /\ observer # "none") =>
       progress = [ phase |-> "done", num |-> DoneProgress, den |-> 1 ]
  /\ pc = "threw" => progress.phase # "done"

\* C25, what the code does: the same milestones, with 100 delivered on a failed
\* run exactly when the observer itself threw on receiving it.
C25_HundredOnlyFailsByObserver ==
  /\ ProgressInRange
  /\ (pc = "bundle" /\ observer # "none") =>
       progress = [ phase |-> "fit", num |-> FitProgress, den |-> 1 ]
  /\ (Returned /\ observer # "none") =>
       progress = [ phase |-> "done", num |-> DoneProgress, den |-> 1 ]
  /\ (pc = "threw" /\ progress.phase = "done") =>
       failure.at = "done" /\ failure.error = CallbackError

\* The specification under which handleSubmit's steps are taken whenever one
\* can be: the browser runs every settled promise's continuation.
FairSpec == Init /\ [][Next]_vars /\ WF_vars(Next)

\* C26: a submit that set isSubmitting is followed by isSubmitting false
\* again, and a submit of an empty selection neither sets it nor reaches
\* trainModel.
C26_SubmittingEnds ==
  /\ isSubmitting ~> ~isSubmitting
  /\ [](pc = "alerted" => ~isSubmitting /\ calls = { })

\* No file of the selection is one whose decode never settles.
AllDecode == \A k \in DOMAIN files : FilePool[files[k]].decodes

\* C26, what the code does: isSubmitting returns to false when every selected
\* image's decode settles; the empty submit is refused as stated.
C26_SubmittingEndsWhenDecodesSettle ==
  /\ (isSubmitting /\ AllDecode) ~> ~isSubmitting
  /\ [](pc = "alerted" => ~isSubmitting /\ calls = { })

\* The form is left submitting for ever: nothing more can happen.
C26_StuckSubmitting == isSubmitting /\ ~ENABLED Next

\* The request a Contribute step has just logged.
Arrived == requests'[Len(requests')]

\* The contribution directories and temporary archives on disk.
Uploaded(fs) == { f.path : f \in { g \in fs : Len(g.path) > Len(ContribPath) } }

\* What lies in the directories of the contributions answered 200 so far.
AcceptedUploads ==
  { f \in fsys : \E i \in DOMAIN requests :
      /\ requests[i].status = 200
      /\ Len(f.path) > Len(ContribPath)
      /\ SubSeq(f.path, 1, Len(ContribPath) + 1) = ContributionDir(requests[i].sha1) }

\* C27, nothing left: a contribute request answered 400 leaves no directory
\* and no temporary archive that was not there before it.
C27_NothingLeft ==
  (Len(requests') > Len(requests) /\ Arrived.status = 400) =>
    Uploaded(fsys') \subseteq Uploaded(fsys)

\* C27, nothing lost: a contribute request answered 400 removes nothing from
\* the directory of a contribution accepted earlier.
C27_NothingLost ==
  (Len(requests') > Len(requests) /\ Arrived.status = 400) =>
    AcceptedUploads \subseteq fsys'

\* C27: a rejected contribute request leaves behind neither its directory
\* <sha1>.tfjs nor its temp_<sha1>.zip, and removes no directory of an
\* earlier accepted contribution.
C27_RejectionLeavesDiskAsItWas == [][C27_NothingLeft /\ C27_NothingLost]_vars

C27_LeftBehind == [][C27_NothingLeft]_vars

C27_AcceptedKept == [][C27_NothingLost]_vars

\* C28: a Contribution is saved, and pushed to the project, only by the
\* callback of a script that exited without error; a request answered 200
\* has saved exactly one Contribution and pushed it; every request is
\* answered at most once, and exactly once unless its script is still running.
C28_RecordedOnceAfterScript ==
  /\ Len(contributions) = Cardinality({ i \in DOMAIN requests : requests[i].recorded })
  /\ \A i \in DOMAIN requests :
       LET r == requests[i]
       IN  /\ r.recorded => r.script = "exited"
           /\ r.pushed => r.recorded
           /\ r.status = 200 <=> r.pushed
           /\ r.script = "failed" => r.status = 500 /\ ~r.recorded
           /\ r.sent = (IF r.status = 0 THEN 0 ELSE 1)
           /\ r.status = 0 => r.script = "running"

\* C28 witness: an accepted request, answered 200 once, with its Contribution
\* saved, next to a request whose script failed and saved nothing.
C28_Witness ==
  /\ Len(requests) = 2
  /\ requests[1].status = 200 /\ requests[1].recorded /\ requests[1].sent = 1
  /\ requests[2].script = "failed"
  /\ Len(contributions) = 1

\* A request of a known user who is neither owner nor collaborator of the
\* project it names.
FromStranger(r) == r.project /\ r.user = "stranger"

\* C29, the step: handling a stranger's request answers 403 and changes
\* neither the disk nor the Contribution collection, and starts no script.
C29_StrangerStep ==
  (Len(requests') > Len(requests) /\ FromStranger(Arrived)) =>
    /\ Arrived.status = 403
    /\ Arrived.sent = 1
    /\ ~Arrived.ran
    /\ fsys' = fsys
    /\ contributions' = contributions

\* C29, afterwards: a stranger's request stays answered 403, without script
\* and without record.
C29_StrangerStays ==
  \A i \in DOMAIN requests :
    FromStranger(requests[i]) =>
      /\ requests[i].status = 403
      /\ requests[i].script = "none"
      /\ ~requests[i].recorded

\* C29: a contribute request from a user who is neither the owner nor a
\* collaborator is answered 403 and causes no filesystem change, no script
\* execution and no Contribution record.
C29_StrangerRefused == [] C29_StrangerStays /\ [][C29_StrangerStep]_vars

\* C29 witness: a stranger's request carrying a complete archive was refused
\* while an earlier contribution's files are on disk.
C29_Witness ==
  /\ Len(requests) = 2
  /\ requests[1].status = 200
  /\ FromStranger(requests[2])
  /\ ArchiveComplete(requests[2].archive)
  /\ requests[2].sha1 \in Hashes /\ requests[2].sha1 # requests[1].sha1
  /\ requests[2].status = 403

\* C22: the final accuracy is the last entry of the acc series when the
\* history has one, else the last entry of the accuracy series when it has
\* one, else 0; the final loss is the last entry of the loss series.
C22_FinalMetrics ==
  metrics.computed =>
    /\ history.acc.present => metrics.accuracy = history.acc.values[Len(history.acc.values)]
    /\ (~history.acc.present /\ history.accuracy.present) =>
         metrics.accuracy = history.accuracy.values[Len(history.accuracy.values)]
    /\ (~history.acc.present /\ ~history.accuracy.present) => metrics.accuracy = 0
    /\ metrics.loss = history.loss.values[Len(history.loss.values)]

\* C22 witness: a history of more than one epoch holding both series with
\* different last entries, none of them the first entry; the acc one is reported.
C22_Witness ==
  /\ metrics.computed
  /\ history.acc.present /\ history.accuracy.present
  /\ Len(history.acc.values) > 1
  /\ LastEntry(history.acc) # LastEntry(history.accuracy)
  /\ LastEntry(history.acc) # history.acc.values[1]
  /\ LastEntry(history.loss) # history.loss.values[1]
  /\ metrics.accuracy = LastEntry(history.acc)
  /\ metrics.loss = LastEntry(history.loss)

\* No two stored projects have the same name.
StoredNamesDistinct ==
  \A i, j \in DOMAIN projects : i # j => projects[i] # projects[j]

\* Request j came after a request for the same name whose project is stored.
AfterStored(j) ==
  \E i \in 1..(j - 1) :
    /\ creating[i].status = 201
    /\ creating[i].document = creating[j].document

\* C30: at most one stored project has a given name, and a request for a
\* name, arriving after the request whose project is stored under it, is
\* answered 'Project name must be unique.' (a request that the checks before
\* the name lookup turn away aside).
C30_NamesUnique ==
  /\ StoredNamesDistinct
  /\ \A j \in DOMAIN creating :
       (/\ AfterStored(j)
        /\ creating[j].status # 0
        /\ creating[j].message \notin { NameRequired, AuthRequired }) =>
         creating[j].message = MustBeUnique

\* C30, the first half alone.
C30_AtMostOneStored == StoredNamesDistinct

\* C30, what the code does: a request whose name, as sent, is the name of a
\* project stored when it arrives is answered 'Project name must be unique.'
C30_StoredNameRefused ==
  [][(/\ Len(creating') > Len(creating)
      /\ FindOne(projects, creating'[Len(creating')].name)
      /\ creating'[Len(creating')].message \notin { NameRequired, AuthRequired }) =>
       /\ creating'[Len(creating')].message = MustBeUnique
       /\ creating'[Len(creating')].script = "none"]_vars

\* Two projects are stored under one name although the collection has a
\* unique index: never.
C30_IndexKeepsNamesDistinct == uniqueIndex => StoredNamesDistinct

====
